---- MODULE Spec2Model ----
(***************************************************************************)
(* A model of quantum-computing-project: the backend registry and          *)
(* dispatcher (BackendManager), the fluent QuantumCircuitBuilder, the      *)
(* CircuitTemplates factory functions and the VQE wrapper.                 *)
(*                                                                         *)
(* Strings the code inspects character by character (backend names) are    *)
(* sequences of one-character strings, so that lower(), the substring test *)
(* and startswith() are computed as the code computes them.                *)
(***************************************************************************)
EXTENDS Integers, Sequences, FiniteSets, TLC

VARIABLES
    \* BackendManager
    phase,          \* "new" before __init__ has run, "ready" after, "failed" if it raised
    backends,       \* self.backends: the dict, as its items in insertion order
    attrs,          \* the instance attributes that have been assigned
    warned,         \* number of logger.warning calls made by __init__
    openSessions,   \* remote sessions opened by run_circuit and not yet closed
    env,            \* what the environment and the remote service did during __init__
    last,           \* the last public call on the manager and its outcome
    \* CircuitTemplates
    tin,            \* the arguments: n_qubits, depth, measure, marked_states
    tout,           \* the template called and what it returned or raised
    \* QuantumCircuitBuilder
    num_qubits,     \* self.num_qubits
    num_classical,  \* self.num_classical
    circuit,        \* self.circuit: its classical-bit count and its instructions
    parameters,     \* self.parameters
    uuids,          \* number of Parameter objects created so far
    blast,          \* the last call on the builder and its outcome
    \* VQE
    energy_history, \* self.energy_history
    result,         \* self.result
    runs,           \* number of run() calls made on the instance
    vlast           \* the last run(): its evaluations and what it returned

backendVars == <<phase, backends, attrs, warned, openSessions, env, last>>

templateVars == <<tin, tout>>

builderVars == <<num_qubits, num_classical, circuit, parameters, uuids, blast>>

vqeVars == <<energy_history, result, runs, vlast>>

vars == <<backendVars, templateVars, builderVars, vqeVars>>

----------------------------------------------------------------------------
(* Bounds *)

\* Longest list of backends the remote service returns during discovery.
MaxRemote == 2

\* Largest n_qubits and depth handed to a circuit template.
MaxTemplateQubits == 5

MaxDepth == 3

\* Longest marked bit-string and longest list of them handed to grover_oracle.
MaxOracleQubits == 3

MaxMarked == 2

\* Most run() calls on one VQE instance, and most objective evaluations in a run.
MaxRuns == 2

MaxEvals == 2

\* Largest register of a QuantumCircuitBuilder, and the length of its circuit
\* and of its parameter list from which no further call is made.
MaxQubits == 3

MaxOps == 2

----------------------------------------------------------------------------
(* Strings as character sequences *)

UpperAlphabet ==
    <<"A","B","C","D","E","F","G","H","I","J","K","L","M",
      "N","O","P","Q","R","S","T","U","V","W","X","Y","Z">>

LowerAlphabet ==
    <<"a","b","c","d","e","f","g","h","i","j","k","l","m",
      "n","o","p","q","r","s","t","u","v","w","x","y","z">>

\* str.lower() on one character
LowerChar(c) ==
    IF \E i \in 1..Len(UpperAlphabet) : UpperAlphabet[i] = c
    THEN LowerAlphabet[CHOOSE i \in 1..Len(UpperAlphabet) : UpperAlphabet[i] = c]
    ELSE c

\* str.lower()
Lower(s) == [i \in 1..Len(s) |-> LowerChar(s[i])]

\* sub in s
Contains(sub, s) ==
    \E i \in 1..(Len(s) - Len(sub) + 1) : SubSeq(s, i, i + Len(sub) - 1) = sub

\* s.startswith(p)
StartsWith(s, p) == Len(s) >= Len(p) /\ SubSeq(s, 1, Len(p)) = p

str_sim == <<"s","i","m">>
str_fake == <<"f","a","k","e">>
str_ibm_ == <<"i","b","m","_">>

aer_simulator == <<"a","e","r","_","s","i","m","u","l","a","t","o","r">>
statevector_simulator ==
    <<"s","t","a","t","e","v","e","c","t","o","r","_","s","i","m","u","l","a","t","o","r">>
qasm_simulator == <<"q","a","s","m","_","s","i","m","u","l","a","t","o","r">>
fake_backend == <<"f","a","k","e","_","b","a","c","k","e","n","d">>

LocalNames == {aer_simulator, statevector_simulator, qasm_simulator, fake_backend}

\* backend.name values the remote service may report
RemoteNames == { <<"k","y","o","t","o">>, <<"S","I","M","2">> }

\* f"ibm_{backend.name}"
IbmName(n) == str_ibm_ \o n

\* names a caller may ask for: registered or not, lower or upper case
QueryNames ==
    LocalNames \cup {IbmName(n) : n \in RemoteNames}
        \cup { <<"d","o","e","s","_","n","o","t","_","e","x","i","s","t">>,
               <<"F","A","K","E">> }

----------------------------------------------------------------------------
(* The registry: a Python dict, kept as the sequence of its items *)

Keys(d) == [i \in 1..Len(d) |-> d[i].name]

KeySet(d) == {d[i].name : i \in 1..Len(d)}

\* d[k]
DictGet(d, k) == d[CHOOSE i \in 1..Len(d) : d[i].name = k].obj

\* d[k] = v : a known key keeps its place, a new key goes last
DictSet(d, k, v) ==
    IF k \in KeySet(d)
    THEN [i \in 1..Len(d) |-> IF d[i].name = k THEN [name |-> k, obj |-> v] ELSE d[i]]
    ELSE Append(d, [name |-> k, obj |-> v])

----------------------------------------------------------------------------
(* BackendManager.__init__ *)

SeqsUpTo(S, n) == UNION {[1..k -> S] : k \in 0..n}

\* What the remote service does during discovery: the stage at which it raises
\* ("service": the QiskitRuntimeService constructor, "backends":
\* service.backends(), "loop": inside the for loop, "none": nowhere), the
\* backend names it reports, and for "loop" the iteration that raises and whether
\* it raises before the dict assignment or after it (in logger.info).
NoDiscovery == [stage |-> "none", found |-> <<>>, failAt |-> 0, failPoint |-> "none"]

Discoveries ==
    {[stage |-> st, found |-> <<>>, failAt |-> 0, failPoint |-> "none"] :
        st \in {"service", "backends"}}
    \cup {[stage |-> "none", found |-> f, failAt |-> 0, failPoint |-> "none"] :
        f \in SeqsUpTo(RemoteNames, MaxRemote)}
    \cup UNION {{[stage |-> "loop", found |-> f, failAt |-> k, failPoint |-> p] :
                    k \in 1..Len(f), p \in {"assign", "log"}} :
                f \in SeqsUpTo(RemoteNames, MaxRemote)}

\* The four assignments that open _initialize_backends
LocalBackends ==
    DictSet(DictSet(DictSet(DictSet(<<>>,
        aer_simulator, "AerSimulator"),
        statevector_simulator, "AerSimulator"),
        qasm_simulator, "AerSimulator"),
        fake_backend, "GenericBackendV2")

\* for backend in backends: self.backends[f"ibm_{backend.name}"] = backend; logger.info(...)
RECURSIVE IbmLoop(_, _, _)
IbmLoop(d, disc, i) ==
    IF i > Len(disc.found) THEN [backends |-> d, raised |-> FALSE]
    ELSE IF disc.stage = "loop" /\ disc.failAt = i /\ disc.failPoint = "assign"
    THEN [backends |-> d, raised |-> TRUE]
    ELSE LET d2 == DictSet(d, IbmName(disc.found[i]), "IBMBackend") IN
         IF disc.stage = "loop" /\ disc.failAt = i /\ disc.failPoint = "log"
         THEN [backends |-> d2, raised |-> TRUE]
         ELSE IbmLoop(d2, disc, i + 1)

\* _initialize_ibm_backends: `service` is a local variable of the method
InitializeIbmBackends(d, disc) ==
    IF disc.stage \in {"service", "backends"}
    THEN [backends |-> d, raised |-> TRUE]
    ELSE IbmLoop(d, disc, 1)

\* try: ... except Exception as e: logger.warning(...)
TryExceptWarn(r) ==
    [backends |-> r.backends, raised |-> FALSE, warned |-> IF r.raised THEN 1 ELSE 0]

\* _initialize_backends; token is bool(os.getenv("IBM_QUANTUM_TOKEN"))
InitializeBackends(token, disc) ==
    IF token
    THEN TryExceptWarn(InitializeIbmBackends(LocalBackends, disc))
    ELSE [backends |-> LocalBackends, raised |-> FALSE, warned |-> 0]

----------------------------------------------------------------------------
(* BackendManager's public methods, as functions of the registry *)

\* get_backend written with dict.get: a missing name yields None, no exception
GetBackend_DictGet(d, name) ==
    IF name \notin KeySet(d)
    THEN [exc |-> "none", listed |-> <<>>, obj |-> "None"]
    ELSE [exc |-> "none", listed |-> <<>>, obj |-> DictGet(d, name)]

\* get_backend
GetBackend(d, name) ==
    IF name \notin KeySet(d)
    THEN [exc |-> "ValueError", listed |-> Keys(d), obj |-> "None"]
    ELSE [exc |-> "none", listed |-> <<>>, obj |-> DictGet(d, name)]

\* list_backends
ListBackends(d) == Keys(d)

\* the same test without .lower()
IsSimulator_CaseSensitive(name) == Contains(str_sim, name) \/ Contains(str_fake, name)

\* "sim" in name.lower() or "fake" in name.lower()
IsSimulator(name) == Contains(str_sim, Lower(name)) \/ Contains(str_fake, Lower(name))

\* hasattr(backend, "configuration"): AerSimulator and the remote backends have
\* it, GenericBackendV2 does not
HasConfiguration(obj) == obj \in {"AerSimulator", "IBMBackend"}

\* get_backend_info
GetBackendInfo(d, name) ==
    LET g == GetBackend(d, name) IN
    IF g.exc # "none"
    THEN [exc |-> g.exc, listed |-> g.listed, is_simulator |-> FALSE, has_config |-> FALSE]
    ELSE [exc |-> "none", listed |-> <<>>, is_simulator |-> IsSimulator(name),
          has_config |-> HasConfiguration(g.obj)]

\* The external call of run_circuit that raises: 0 for none; on the local branch
\* 1 transpile, 2 backend.run, 3 job.result; on the remote branch 1 Session(...),
\* 2 sampler.run, 3 job.result
ExternalFailures == {0, 1, 2, 3}

\* The remote branch: with Session(service=self.service, backend=backend) as
\* session. Evaluating self.service comes first; leaving the with block closes
\* the session, with or without an exception.
RunRemote(at, failAt) ==
    IF "service" \notin at
    THEN [exc |-> "AttributeError", spy |-> <<>>, opened |-> 0, closed |-> 0]
    ELSE IF failAt = 1
    THEN [exc |-> "ExternalError", spy |-> <<>>, opened |-> 0, closed |-> 0]
    ELSE IF failAt = 2
    THEN [exc |-> "ExternalError", spy |-> <<"sampler.run">>, opened |-> 1, closed |-> 1]
    ELSE IF failAt = 3
    THEN [exc |-> "ExternalError", spy |-> <<"sampler.run", "result">>,
          opened |-> 1, closed |-> 1]
    ELSE [exc |-> "none", spy |-> <<"sampler.run", "result">>, opened |-> 1, closed |-> 1]

\* The local branch: transpile(circuit, backend, ...); backend.run(transpiled,
\* shots=shots); job.result(). shots is handed to the backend as it came.
RunLocal(shots, failAt) ==
    IF failAt = 1
    THEN [exc |-> "ExternalError", spy |-> <<"transpile">>, opened |-> 0, closed |-> 0]
    ELSE IF failAt = 2
    THEN [exc |-> "ExternalError", spy |-> <<"transpile", "run">>, opened |-> 0, closed |-> 0]
    ELSE IF failAt = 3
    THEN [exc |-> "ExternalError", spy |-> <<"transpile", "run", "result">>,
          opened |-> 0, closed |-> 0]
    ELSE [exc |-> "none", spy |-> <<"transpile", "run", "result">>,
          opened |-> 0, closed |-> 0]

\* run_circuit: the circuit is handed to transpile or to sampler.run as it came;
\* nothing reads circuit.parameters
RunCircuit(d, at, name, unbound, shots, failAt) ==
    LET g == GetBackend(d, name) IN
    IF g.exc # "none"
    THEN [exc |-> g.exc, named |-> <<>>, listed |-> g.listed, spy |-> <<>>,
          opened |-> 0, closed |-> 0]
    ELSE LET r == IF StartsWith(name, str_ibm_) THEN RunRemote(at, failAt)
                  ELSE RunLocal(shots, failAt)
         IN [exc |-> r.exc, named |-> <<>>, listed |-> <<>>, spy |-> r.spy,
             opened |-> r.opened, closed |-> r.closed]

----------------------------------------------------------------------------
(* The BackendManager state machine *)

\* run_circuit's default shot count
DefaultShots == 1024

ShotValues == {-5, 0, DefaultShots}

\* The circuits handed to run_circuit, each as the names of its parameters that
\* are still unbound, in the order of circuit.parameters
Circuits == { <<>>, <<"a", "b">> }

\* The (circuit, shots) pairs of the calls made: a fully bound circuit with
\* every shot count, a circuit with unbound parameters with the default one
RunArguments ==
    {[unbound |-> <<>>, shots |-> s] : s \in ShotValues}
        \cup {[unbound |-> c, shots |-> DefaultShots] : c \in Circuits \ {<<>>}}

\* The record kept of a call: the method, its arguments, the exception it raised
\* ("none" if it returned), the parameter its message names (named), the
\* backend names its message lists (listed), the
\* values returned, and for run_circuit the calls the backend received (spy) and
\* the sessions the call opened and closed.
NoCall ==
    [op |-> "none", name |-> <<>>, unbound |-> <<>>, shots |-> 0, exc |-> "none",
     named |-> <<>>, listed |-> <<>>, obj |-> "None", names |-> <<>>,
     is_simulator |-> FALSE, has_config |-> FALSE,
     spy |-> <<>>, opened |-> 0, closed |-> 0]

\* The other components, untouched while one is exercised
NoTemplate ==
    [op |-> "none", exc |-> "none", num_qubits |-> 0, num_clbits |-> 0, data |-> <<>>]

TemplatesIdle ==
    /\ tin = [n_qubits |-> 0, depth |-> 0, measure |-> FALSE, marked_states |-> <<>>]
    /\ tout = NoTemplate

NoBuilderCall ==
    [op |-> "none", args |-> <<>>, angle |-> <<>>, exc |-> "none", ret |-> "None"]

BuilderIdle ==
    /\ num_qubits = 0
    /\ num_classical = 0
    /\ circuit = [num_clbits |-> 0, data |-> <<>>]
    /\ parameters = <<>>
    /\ uuids = 0
    /\ blast = NoBuilderCall

NoRun == [exc |-> "none", evals |-> <<>>, returned |-> <<>>]

VqeIdle ==
    /\ energy_history = <<>>
    /\ result = "None"
    /\ runs = 0
    /\ vlast = NoRun

BackendIdle ==
    /\ phase = "new"
    /\ backends = <<>>
    /\ attrs = {}
    /\ warned = 0
    /\ openSessions = 0
    /\ env = [token |-> FALSE, disc |-> NoDiscovery]
    /\ last = NoCall

\* manager = BackendManager()
BackendManagerInit ==
    /\ phase = "new"
    /\ \E token \in BOOLEAN, disc \in Discoveries :
        LET r == InitializeBackends(token, disc) IN
        /\ token \/ disc = NoDiscovery
        /\ phase' = IF r.raised THEN "failed" ELSE "ready"
        /\ backends' = r.backends
        /\ attrs' = {"backends"}
        /\ warned' = r.warned
        /\ env' = [token |-> token, disc |-> disc]
    /\ UNCHANGED <<openSessions, last>>
    /\ UNCHANGED <<templateVars, builderVars, vqeVars>>

\* manager.get_backend(name)
CallGetBackend ==
    /\ phase = "ready"
    /\ \E name \in QueryNames :
        LET g == GetBackend(backends, name) IN
        last' = [NoCall EXCEPT !.op = "get_backend", !.name = name, !.exc = g.exc,
                               !.listed = g.listed, !.obj = g.obj]
    /\ UNCHANGED <<phase, backends, attrs, warned, openSessions, env>>
    /\ UNCHANGED <<templateVars, builderVars, vqeVars>>

\* manager.list_backends()
CallListBackends ==
    /\ phase = "ready"
    /\ last' = [NoCall EXCEPT !.op = "list_backends", !.names = ListBackends(backends)]
    /\ UNCHANGED <<phase, backends, attrs, warned, openSessions, env>>
    /\ UNCHANGED <<templateVars, builderVars, vqeVars>>

\* manager.get_backend_info(name)
CallGetBackendInfo ==
    /\ phase = "ready"
    /\ \E name \in QueryNames :
        LET g == GetBackendInfo(backends, name) IN
        last' = [NoCall EXCEPT !.op = "get_backend_info", !.name = name, !.exc = g.exc,
                               !.listed = g.listed, !.is_simulator = g.is_simulator,
                               !.has_config = g.has_config]
    /\ UNCHANGED <<phase, backends, attrs, warned, openSessions, env>>
    /\ UNCHANGED <<templateVars, builderVars, vqeVars>>

\* manager.run_circuit(circuit, backend_name=name, shots=shots)
CallRunCircuit ==
    /\ phase = "ready"
    /\ \E name \in QueryNames, a \in RunArguments, failAt \in ExternalFailures :
        LET r == RunCircuit(backends, attrs, name, a.unbound, a.shots, failAt) IN
        /\ last' = [NoCall EXCEPT !.op = "run_circuit", !.name = name,
                                  !.unbound = a.unbound, !.shots = a.shots,
                                  !.exc = r.exc, !.named = r.named,
                                  !.listed = r.listed, !.spy = r.spy,
                                  !.opened = r.opened, !.closed = r.closed]
        /\ openSessions' = openSessions + r.opened - r.closed
    /\ UNCHANGED <<phase, backends, attrs, warned, env>>
    /\ UNCHANGED <<templateVars, builderVars, vqeVars>>

NextBackend ==
    \/ BackendManagerInit
    \/ CallGetBackend
    \/ CallListBackends
    \/ CallGetBackendInfo
    \/ CallRunCircuit

BackendInit == BackendIdle /\ TemplatesIdle /\ BuilderIdle /\ VqeIdle

SpecBackend == BackendInit /\ [][NextBackend]_vars

----------------------------------------------------------------------------
(* Claims about the BackendManager, checked under SpecBackend *)

Registered(name) == name \in KeySet(backends)

\* C1: run_circuit with a shot count that is zero or negative, on any registered
\* backend, fails with an InvalidArgument error and the backend receives no call.
C1_NonPositiveShotsRejected ==
    (last.op = "run_circuit" /\ Registered(last.name) /\ last.shots <= 0)
        => (last.exc = "InvalidArgument" /\ last.spy = <<>> /\ last.opened = 0)

\* C2: once the manager is constructed its registry holds aer_simulator and no
\* call changes it; get_backend of a registered name returns its backend,
\* get_backend("aer_simulator") always does, and get_backend of any other name
\* raises ValueError with a message that lists every registered name, at least one.
C2_GetBackendStep ==
    /\ phase = "ready" => backends' = backends
    /\ phase' = "ready" => aer_simulator \in KeySet(backends')
    /\ last'.op = "get_backend" =>
        /\ last'.name = aer_simulator => last'.exc = "none"
        /\ IF last'.name \in KeySet(backends)
           THEN last'.exc = "none" /\ last'.obj # "None"
           ELSE /\ last'.exc = "ValueError"
                /\ Len(last'.listed) >= 1
                /\ {last'.listed[i] : i \in 1..Len(last'.listed)} = KeySet(backends)
                /\ Len(last'.listed) = Len(backends)

C2_GetBackendContract == [][C2_GetBackendStep]_vars

\* C2 witness: a get_backend of an unknown name has raised, listing a registry
\* that holds remote backends as well as the local ones.
C2_Witness ==
    /\ last.op = "get_backend"
    /\ last.exc = "ValueError"
    /\ Len(last.listed) > Cardinality(LocalNames)
    /\ ~Registered(last.name)

\* C3: construction never raises, the registry always holds the four local
\* names, and it holds nothing else when the credential is absent or discovery
\* raised at any point.
C3_DiscoveryFailureLeavesLocalOnly ==
    phase # "new" =>
        /\ phase = "ready"
        /\ LocalNames \subseteq KeySet(backends)
        /\ (~env.token \/ env.disc.stage # "none") => KeySet(backends) = LocalNames

\* C4: a run_circuit on a registered ibm_ backend opens one session, submits
\* the circuit, and has closed the session when it returns or raises; it fails
\* only if the submission or the result retrieval fails, and no session stays
\* open afterwards.
C4_RemoteRunUsesScopedSession ==
    (last.op = "run_circuit" /\ Registered(last.name) /\ StartsWith(last.name, str_ibm_))
        => /\ last.exc \in {"none", "ExternalError"}
           /\ last.closed = last.opened
           /\ openSessions = 0
           /\ last.exc = "none" =>
                (last.opened = 1 /\ last.spy = <<"sampler.run", "result">>)

\* sub occurs in s when letter case is ignored
ContainsIgnoreCase(sub, s) ==
    \E i \in 0..(Len(s) - Len(sub)) :
        \A j \in 1..Len(sub) : LowerChar(s[i + j]) = LowerChar(sub[j])

\* C8 as stated: get_backend_info reports is_simulator true exactly for the
\* names that contain "sim" or "fake".
C8_SimulatorIffContainsToken ==
    (last.op = "get_backend_info" /\ last.exc = "none")
        => last.is_simulator = (Contains(str_sim, last.name) \/ Contains(str_fake, last.name))

\* C8 amended: get_backend_info of a registered name reports is_simulator true
\* exactly when the name contains "sim" or "fake" with letter case ignored, a
\* function of the name alone, true for aer_simulator; of an unregistered name
\* it raises ValueError.
C8_SimulatorIffContainsTokenAnyCase ==
    last.op = "get_backend_info" =>
        /\ last.exc = (IF Registered(last.name) THEN "none" ELSE "ValueError")
        /\ last.exc = "none" =>
            /\ last.is_simulator = (ContainsIgnoreCase(str_sim, last.name)
                                        \/ ContainsIgnoreCase(str_fake, last.name))
            /\ last.name = aer_simulator => last.is_simulator

\* C8 witness: a registered remote backend whose name holds "SIM" in upper case
\* has been classified as a simulator.
C8_Witness ==
    /\ last.op = "get_backend_info"
    /\ last.exc = "none"
    /\ last.name = IbmName(<<"S","I","M","2">>)
    /\ last.is_simulator

\* C11: run_circuit on a registered backend with a circuit that has an unbound
\* parameter fails with a ConfigurationError naming the first unbound parameter,
\* before the circuit is lowered or submitted (no transpile, no run, no
\* session); with every parameter bound the call is not rejected for its
\* parameters and goes on to dispatch.
C11_UnboundParametersRejected ==
    (last.op = "run_circuit" /\ Registered(last.name)) =>
        IF last.unbound # <<>>
        THEN /\ last.exc = "ConfigurationError"
             /\ last.named = <<last.unbound[1]>>
             /\ last.spy = <<>>
             /\ last.opened = 0
        ELSE last.exc # "ConfigurationError"

----------------------------------------------------------------------------
(* Circuits: the qubit and classical-bit counts and the ordered instructions *)

NoParam == [kind |-> "none", name |-> <<>>, uuid |-> 0]

\* Parameter(name): a parameter object; uuid tells two objects of one name apart
Sym(name, uuid) == [kind |-> "sym", name |-> name, uuid |-> uuid]

\* One entry of circuit.data
Op(name, qubits, clbits, param) ==
    [name |-> name, qubits |-> qubits, clbits |-> clbits, param |-> param]

\* circuit.parameters: the parameters the instructions refer to
CircuitParameters(data) ==
    {data[i].param : i \in {j \in 1..Len(data) : data[j].param.kind = "sym"}}

\* circuit.measure(qr, cr): one measure per qubit, qubit i into classical bit i
MeasureRegister(n) == [i \in 1..n |-> Op("measure", <<i - 1>>, <<i - 1>>, NoParam)]

Digits == <<"0","1","2","3","4","5","6","7","8","9">>

\* str(k) for k >= 0, as the f-string formats it
RECURSIVE ToStr(_)
ToStr(k) ==
    IF k < 10 THEN <<Digits[k + 1]>>
    ELSE ToStr(k \div 10) \o <<Digits[(k % 10) + 1]>>

----------------------------------------------------------------------------
(* CircuitTemplates *)

Returned(nq, nc, data) ==
    [exc |-> "none", num_qubits |-> nq, num_clbits |-> nc, data |-> data]

Raised(exc) == [exc |-> exc, num_qubits |-> 0, num_clbits |-> 0, data |-> <<>>]

\* bell_state
BellState(measure) ==
    Returned(2, 2,
        <<Op("h", <<0>>, <<>>, NoParam), Op("cx", <<0, 1>>, <<>>, NoParam)>>
            \o (IF measure THEN MeasureRegister(2) ELSE <<>>))

\* ghz_state with the entangling gates chained (i-1 -> i) instead of fanned out
GhzState_Chained(n_qubits, measure) ==
    Returned(n_qubits, n_qubits,
        <<Op("h", <<0>>, <<>>, NoParam)>>
            \o [i \in 1..(n_qubits - 1) |-> Op("cx", <<i - 1, i>>, <<>>, NoParam)]
            \o (IF measure THEN MeasureRegister(n_qubits) ELSE <<>>))

\* ghz_state
GhzState(n_qubits, measure) ==
    Returned(n_qubits, n_qubits,
        <<Op("h", <<0>>, <<>>, NoParam)>>
            \o [i \in 1..(n_qubits - 1) |-> Op("cx", <<0, i>>, <<>>, NoParam)]
            \o (IF measure THEN MeasureRegister(n_qubits) ELSE <<>>))

\* f'θ_{d}_{i}' (the token "theta" stands for the character θ)
ThetaName(d, i) == <<"theta", "_">> \o ToStr(d) \o <<"_">> \o ToStr(i)

\* The rotation layer of layer d: for i in range(n_qubits): a new Parameter, ry
RotationLayer(n_qubits, d) ==
    [k \in 1..n_qubits |->
        Op("ry", <<k - 1>>, <<>>, Sym(ThetaName(d, k - 1), d * n_qubits + k))]

\* The entanglement layer: for i in range(n_qubits - 1): circuitcx(i, i + 1).
\* The name circuitcx is not defined, so the first iteration raises NameError;
\* with no iteration the loop is skipped and the wrap-around test follows.
EntanglementLayer(n_qubits) ==
    IF n_qubits - 1 > 0
    THEN [exc |-> "NameError", ops |-> <<>>]
    ELSE [exc |-> "none",
          ops |-> IF n_qubits > 2
                  THEN <<Op("cx", <<n_qubits - 1, 0>>, <<>>, NoParam)>>
                  ELSE <<>>]

\* for d in range(depth): rotation layer, entanglement layer
RECURSIVE AnsatzLayers(_, _, _, _)
AnsatzLayers(n_qubits, depth, d, data) ==
    IF d >= depth THEN Returned(n_qubits, 0, data)
    ELSE LET ent == EntanglementLayer(n_qubits) IN
         IF ent.exc # "none" THEN Raised(ent.exc)
         ELSE AnsatzLayers(n_qubits, depth, d + 1,
                           data \o RotationLayer(n_qubits, d) \o ent.ops)

\* variational_ansatz
VariationalAnsatz(n_qubits, depth) == AnsatzLayers(n_qubits, depth, 0, <<>>)

\* The X gates of one marked string: for i, bit in enumerate(state):
\* if bit == '0': oracle.x(i)
XLayer(state) ==
    LET zeros == SelectSeq([k \in 1..Len(state) |-> k - 1],
                           LAMBDA i : state[i + 1] = "0")
    IN [k \in 1..Len(zeros) |-> Op("x", <<zeros[k]>>, <<>>, NoParam)]

\* oracle.h(n_qubits - 1); oracle.mcx(list(range(n_qubits - 1)), n_qubits - 1);
\* oracle.h(n_qubits - 1). An mcx lists its controls, then its target.
PhaseFlip(n_qubits) ==
    <<Op("h", <<n_qubits - 1>>, <<>>, NoParam),
      Op("mcx", [k \in 1..n_qubits |-> k - 1], <<>>, NoParam),
      Op("h", <<n_qubits - 1>>, <<>>, NoParam)>>

\* One pass of the loop body with the closing X gates left out
OracleBlock_NoUndo(state, n_qubits) == XLayer(state) \o PhaseFlip(n_qubits)

\* One pass of the loop body: X gates, the phase flip, the X gates again
OracleBlock(state, n_qubits) == XLayer(state) \o PhaseFlip(n_qubits) \o XLayer(state)

\* for state in marked_states: ...
RECURSIVE OracleLoop(_, _, _, _)
OracleLoop(marked_states, n_qubits, k, data) ==
    IF k > Len(marked_states) THEN data
    ELSE OracleLoop(marked_states, n_qubits, k + 1,
                    data \o OracleBlock(marked_states[k], n_qubits))

\* grover_oracle: marked_states[0] of an empty list raises IndexError; a gate
\* on a qubit the circuit does not have raises CircuitError
GroverOracle(marked_states) ==
    IF marked_states = <<>> THEN Raised("IndexError")
    ELSE LET n_qubits == Len(marked_states[1])
             data == OracleLoop(marked_states, n_qubits, 1, <<>>)
         IN IF \A i \in 1..Len(data) : \A k \in 1..Len(data[i].qubits) :
                    data[i].qubits[k] \in 0..(n_qubits - 1)
            THEN Returned(n_qubits, 0, data)
            ELSE Raised("CircuitError")

TemplateResult(op, r) ==
    [op |-> op, exc |-> r.exc, num_qubits |-> r.num_qubits,
     num_clbits |-> r.num_clbits, data |-> r.data]

TemplateInputs ==
    [n_qubits : 1..MaxTemplateQubits, depth : 0..MaxDepth, measure : BOOLEAN,
     marked_states : {<<>>}]

TemplatesInit ==
    /\ tin \in TemplateInputs
    /\ tout = NoTemplate
    /\ BackendIdle
    /\ BuilderIdle
    /\ VqeIdle

\* CircuitTemplates.bell_state(measure)
CallBellState ==
    /\ tout' = TemplateResult("bell_state", BellState(tin.measure))
    /\ UNCHANGED <<tin, backendVars, builderVars, vqeVars>>

\* CircuitTemplates.ghz_state(n_qubits, measure)
CallGhzState ==
    /\ tout' = TemplateResult("ghz_state", GhzState(tin.n_qubits, tin.measure))
    /\ UNCHANGED <<tin, backendVars, builderVars, vqeVars>>

\* CircuitTemplates.variational_ansatz(n_qubits, depth)
CallVariationalAnsatz ==
    /\ tout' = TemplateResult("variational_ansatz",
                              VariationalAnsatz(tin.n_qubits, tin.depth))
    /\ UNCHANGED <<tin, backendVars, builderVars, vqeVars>>

NextTemplates ==
    \/ CallBellState
    \/ CallGhzState
    \/ CallVariationalAnsatz

SpecTemplates == TemplatesInit /\ [][NextTemplates]_vars

\* The strings of n characters '0' and '1'
BitStrings(n) == [1..n -> {"0", "1"}]

\* The lists handed to grover_oracle: one or more distinct bit-strings of one
\* length, two characters or more
MarkedLists ==
    UNION {{q \in [1..m -> BitStrings(n)] : \A i, j \in 1..m : i # j => q[i] # q[j]} :
            n \in 2..MaxOracleQubits, m \in 1..MaxMarked}

OracleInit ==
    /\ tin \in [n_qubits : {0}, depth : {0}, measure : {FALSE},
                marked_states : MarkedLists]
    /\ tout = NoTemplate
    /\ BackendIdle
    /\ BuilderIdle
    /\ VqeIdle

\* CircuitTemplates.grover_oracle(marked_states)
CallGroverOracle ==
    /\ tout' = TemplateResult("grover_oracle", GroverOracle(tin.marked_states))
    /\ UNCHANGED <<tin, backendVars, builderVars, vqeVars>>

NextOracle == CallGroverOracle

SpecOracle == OracleInit /\ [][NextOracle]_vars

----------------------------------------------------------------------------
(* Claims about CircuitTemplates, checked under SpecTemplates *)

CountOps(data, name) == Cardinality({i \in 1..Len(data) : data[i].name = name})

\* C6: for n >= 2, ghz_state(n) is one H on qubit 0 followed by the n-1 CX
\* gates from control 0 to targets 1, 2, ..., n-1 in that order; without measure
\* that is the whole circuit, with measure only the measurement of every qubit
\* into its own classical bit follows.
C6_GhzShape ==
    (tout.op = "ghz_state" /\ tin.n_qubits >= 2) =>
        LET n == tin.n_qubits
            data == tout.data
        IN /\ tout.exc = "none"
           /\ tout.num_qubits = n
           /\ Len(data) = (IF tin.measure THEN 2 * n ELSE n)
           /\ data[1].name = "h" /\ data[1].qubits = <<0>>
           /\ CountOps(data, "h") = 1
           /\ CountOps(data, "cx") = n - 1
           /\ \A i \in 1..(n - 1) :
                data[i + 1].name = "cx" /\ data[i + 1].qubits = <<0, i>>
           /\ \A i \in (n + 1)..Len(data) :
                /\ data[i].name = "measure"
                /\ data[i].qubits = <<i - n - 1>>
                /\ data[i].clbits = <<i - n - 1>>

\* C6 witness: ghz_state(4, measure=True) has returned its eight instructions.
C6_Witness ==
    /\ tout.op = "ghz_state"
    /\ tin.n_qubits = 4
    /\ tin.measure
    /\ Len(tout.data) = 8

\* C7: for n_qubits >= 1 and depth >= 1, variational_ansatz returns a circuit
\* on n_qubits qubits made of depth layers, each one ry per qubit with its own
\* parameter followed by CX(i, i+1) for i = 0..n_qubits-2 and CX(n_qubits-1, 0)
\* when n_qubits > 2; the circuit has n_qubits*depth distinct parameters.
C7_AnsatzShape ==
    (tout.op = "variational_ansatz" /\ tin.n_qubits >= 1 /\ tin.depth >= 1) =>
        LET n == tin.n_qubits
            data == tout.data
            width == n + (n - 1) + (IF n > 2 THEN 1 ELSE 0)
        IN /\ tout.exc = "none"
           /\ tout.num_qubits = n
           /\ Len(data) = tin.depth * width
           /\ Cardinality({p.name : p \in CircuitParameters(data)}) = n * tin.depth
           /\ \A d \in 0..(tin.depth - 1) :
                /\ \A i \in 0..(n - 1) :
                    /\ data[d * width + i + 1].name = "ry"
                    /\ data[d * width + i + 1].qubits = <<i>>
                    /\ data[d * width + i + 1].param.kind = "sym"
                /\ \A i \in 0..(n - 2) :
                    /\ data[d * width + n + i + 1].name = "cx"
                    /\ data[d * width + n + i + 1].qubits = <<i, i + 1>>
                /\ n > 2 =>
                    /\ data[(d + 1) * width].name = "cx"
                    /\ data[(d + 1) * width].qubits = <<n - 1, 0>>

----------------------------------------------------------------------------
(* What a circuit of X, H and multi-controlled X gates does to the register.
   A basis state is the number whose bit i is the value of qubit i; a register
   state is its integer amplitude on every basis state, each H left without its
   factor 1/sqrt(2). *)

Bit(b, i) == (b \div (2 ^ i)) % 2

Flip(b, i) == IF Bit(b, i) = 0 THEN b + 2 ^ i ELSE b - 2 ^ i

Basis(n) == 0..(2 ^ n - 1)

Ket(b, n) == [c \in Basis(n) |-> IF c = b THEN 1 ELSE 0]

ApplyGate(v, op) ==
    CASE op.name = "x" ->
            [b \in DOMAIN v |-> v[Flip(b, op.qubits[1])]]
      [] op.name = "h" ->
            LET i == op.qubits[1] IN
            [b \in DOMAIN v |->
                IF Bit(b, i) = 0 THEN v[b] + v[Flip(b, i)] ELSE v[Flip(b, i)] - v[b]]
      [] op.name = "mcx" ->
            LET m == Len(op.qubits) IN
            [b \in DOMAIN v |->
                IF \A k \in 1..(m - 1) : Bit(b, op.qubits[k]) = 1
                THEN v[Flip(b, op.qubits[m])]
                ELSE v[b]]
      [] OTHER -> v

RECURSIVE ApplyCircuit(_, _, _)
ApplyCircuit(v, data, k) ==
    IF k > Len(data) THEN v ELSE ApplyCircuit(ApplyGate(v, data[k]), data, k + 1)

\* The image of every basis state under the circuit
OracleAction(data, n) == [b \in Basis(n) |-> ApplyCircuit(Ket(b, n), data, 1)]

\* The register holds the bit-string: qubit i holds character i
Holds(b, state) ==
    \A i \in 1..Len(state) : Bit(b, i - 1) = (IF state[i] = "1" THEN 1 ELSE 0)

\* Every basis state mapped to itself, with its sign changed exactly when it
\* holds a marked string; the two H gates of each pass double the amplitude
MarkedPhaseFlip(marked_states, n) ==
    LET scale == 2 ^ Len(marked_states) IN
    [b \in Basis(n) |->
        [c \in Basis(n) |->
            IF c # b THEN 0
            ELSE IF \E k \in 1..Len(marked_states) : Holds(b, marked_states[k])
            THEN 0 - scale
            ELSE scale]]

\* The number a bit-string spells, character 0 the lowest bit
ValueOf(state) ==
    LET RECURSIVE Sum(_)
        Sum(i) == IF i > Len(state) THEN 0
                  ELSE (IF state[i] = "1" THEN 2 ^ (i - 1) ELSE 0) + Sum(i + 1)
    IN Sum(1)

\* The same strings in ascending order of the numbers they spell
Ascending(marked_states) ==
    LET m == Len(marked_states) IN
    CHOOSE q \in [1..m -> {marked_states[k] : k \in 1..m}] :
        \A i \in 1..(m - 1) : ValueOf(q[i]) < ValueOf(q[i + 1])

\* C13: for a list of one or more distinct bit-strings of length n >= 2,
\* grover_oracle returns a circuit on n qubits that maps every basis state to
\* itself, no qubit left flipped, and changes its sign exactly when the
\* register (qubit i holding character i) holds one of the marked strings; the
\* circuit built from the same strings in another order does the same.
C13_OracleFlipsMarked ==
    tout.op = "grover_oracle" =>
        LET marked_states == tin.marked_states
            n == Len(marked_states[1])
            action == OracleAction(tout.data, n)
        IN /\ tout.exc = "none"
           /\ tout.num_qubits = n
           /\ action = MarkedPhaseFlip(marked_states, n)
           /\ OracleAction(GroverOracle(Ascending(marked_states)).data, n) = action

\* C13 witness: grover_oracle(["110", "010"]) has returned; its circuit holds X
\* gates, and it flips the sign of the state with qubits 0, 1, 2 = 1, 1, 0
\* (basis state 3) and leaves the state 1, 1, 1 (basis state 7) as it is.
C13_Witness ==
    /\ tout.op = "grover_oracle"
    /\ tin.marked_states = << <<"1","1","0">>, <<"0","1","0">> >>
    /\ CountOps(tout.data, "x") = 6
    /\ ApplyCircuit(Ket(3, 3), tout.data, 1)[3] < 0
    /\ ApplyCircuit(Ket(7, 3), tout.data, 1)[7] > 0

----------------------------------------------------------------------------
(* VQE *)

\* Objective values the estimator may report
Energies == {-1, -2}

\* _callback(eval_count, params, value, metadata)
Callback(history, value) == Append(history, value)

\* compute_minimum_eigenvalue: the optimizer evaluates the objective once per
\* entry of evals and invokes the callback after each evaluation
RECURSIVE Evaluate(_, _, _)
Evaluate(history, evals, i) ==
    IF i > Len(evals) THEN history
    ELSE Evaluate(Callback(history, evals[i]), evals, i + 1)

\* run(): nothing is reset; the dict returned holds self.energy_history itself.
\* fails: compute_minimum_eigenvalue raises after the evaluations made so far.
Run(history, evals, fails) ==
    LET h == Evaluate(history, evals, 1) IN
    [energy_history |-> h,
     exc |-> IF fails THEN "ExternalError" ELSE "none",
     returned |-> IF fails THEN <<>> ELSE h]

VqeInit ==
    /\ VqeIdle
    /\ BackendIdle
    /\ TemplatesIdle
    /\ BuilderIdle

\* vqe.run()
CallRun ==
    /\ runs < MaxRuns
    /\ \E evals \in SeqsUpTo(Energies, MaxEvals), fails \in BOOLEAN :
        LET r == Run(energy_history, evals, fails) IN
        /\ fails \/ Len(evals) >= 1
        /\ energy_history' = r.energy_history
        /\ result' = IF fails THEN result ELSE "VQEResult"
        /\ vlast' = [exc |-> r.exc, evals |-> evals, returned |-> r.returned]
    /\ runs' = runs + 1
    /\ UNCHANGED <<backendVars, templateVars, builderVars>>

NextVqe == CallRun

SpecVQE == VqeInit /\ [][NextVqe]_vars

----------------------------------------------------------------------------
(* Claims about VQE, checked under SpecVQE *)

\* C9: the energy_history returned by a run() holds exactly the objective
\* values evaluated during that run, in evaluation order, and nothing from an
\* earlier run.
C9_RunReturnsOwnTrace ==
    (runs >= 1 /\ vlast.exc = "none") => vlast.returned = vlast.evals

----------------------------------------------------------------------------
(* QuantumCircuitBuilder *)

\* An optional argument: <<>> is None, <<v>> is the value v
None == <<>>

Some(v) == <<v>>

\* A numeric angle
NumParam == [kind |-> "num", name |-> <<>>, uuid |-> 0]

\* A Python index i into a sequence of length n: -n..n-1 are accepted, negative
\* ones count from the end
ValidIndex(i, n) == -n <= i /\ i < n

ResolveIndex(i, n) == IF i >= 0 THEN i ELSE n + i

Resolve(idx, n) == [k \in 1..Len(idx) |-> ResolveIndex(idx[k], n)]

AllValid(idx, n) == \A k \in 1..Len(idx) : ValidIndex(idx[k], n)

Distinct(seq) == \A i, j \in 1..Len(seq) : i # j => seq[i] # seq[j]

\* The circuit already refers to another parameter object of the same name
NameConflict(data, param) ==
    /\ param.kind = "sym"
    /\ \E i \in 1..Len(data) :
        /\ data[i].param.kind = "sym"
        /\ data[i].param.name = param.name
        /\ data[i].param.uuid # param.uuid

\* The builder while a method runs: its circuit, its parameter list, the
\* number of Parameter objects made, and the exception raised ("none" so far)
Builder(c, ps, u) == [circuit |-> c, parameters |-> ps, uuids |-> u, exc |-> "none"]

\* self.circuit.<gate>(...) with the instruction put first instead of last
AppendInstruction_Prepend(st, n, name, qubits, clbits, param) ==
    IF st.exc # "none" THEN st
    ELSE IF /\ AllValid(qubits, n) /\ Distinct(Resolve(qubits, n))
            /\ AllValid(clbits, st.circuit.num_clbits)
            /\ ~NameConflict(st.circuit.data, param)
    THEN [st EXCEPT !.circuit.data =
            <<Op(name, Resolve(qubits, n), Resolve(clbits, st.circuit.num_clbits), param)>>
                \o @]
    ELSE [st EXCEPT !.exc = "CircuitError"]

\* self.circuit.<gate>(...): the circuit resolves the indices and appends the
\* instruction, or raises CircuitError for an index out of range, a repeated
\* qubit, or a parameter whose name another parameter of the circuit has. After
\* an earlier exception nothing runs.
AppendInstruction(st, n, name, qubits, clbits, param) ==
    IF st.exc # "none" THEN st
    ELSE IF /\ AllValid(qubits, n) /\ Distinct(Resolve(qubits, n))
            /\ AllValid(clbits, st.circuit.num_clbits)
            /\ ~NameConflict(st.circuit.data, param)
    THEN [st EXCEPT !.circuit.data =
            Append(@, Op(name, Resolve(qubits, n),
                         Resolve(clbits, st.circuit.num_clbits), param))]
    ELSE [st EXCEPT !.exc = "CircuitError"]

\* __init__: num_classical or num_qubits
NewNumClassical(n, nc) == IF nc = None \/ nc = Some(0) THEN n ELSE nc[1]

add_hadamard(st, n, qubit) == AppendInstruction(st, n, "h", <<qubit>>, <<>>, NoParam)

add_pauli_x(st, n, qubit) == AppendInstruction(st, n, "x", <<qubit>>, <<>>, NoParam)

add_pauli_y(st, n, qubit) == AppendInstruction(st, n, "y", <<qubit>>, <<>>, NoParam)

add_pauli_z(st, n, qubit) == AppendInstruction(st, n, "z", <<qubit>>, <<>>, NoParam)

add_cnot(st, n, control, target) ==
    AppendInstruction(st, n, "cx", <<control, target>>, <<>>, NoParam)

\* if isinstance(angle, str): angle = Parameter(angle); self.parameters.append(angle)
\* angle is <<>> for a number and the name for a string
DeclareParameter(st, angle) ==
    IF angle = <<>> THEN st
    ELSE [st EXCEPT !.uuids = @ + 1,
                    !.parameters = Append(@, Sym(angle, st.uuids + 1))]

AngleParam(st, angle) == IF angle = <<>> THEN NumParam ELSE Sym(angle, st.uuids + 1)

add_rotation_x(st, n, qubit, angle) ==
    AppendInstruction(DeclareParameter(st, angle), n, "rx", <<qubit>>, <<>>,
                      AngleParam(st, angle))

add_rotation_y(st, n, qubit, angle) ==
    AppendInstruction(DeclareParameter(st, angle), n, "ry", <<qubit>>, <<>>,
                      AngleParam(st, angle))

add_rotation_z(st, n, qubit, angle) ==
    AppendInstruction(DeclareParameter(st, angle), n, "rz", <<qubit>>, <<>>,
                      AngleParam(st, angle))

add_toffoli(st, n, control1, control2, target) ==
    AppendInstruction(st, n, "ccx", <<control1, control2, target>>, <<>>, NoParam)

add_swap(st, n, qubit1, qubit2) ==
    AppendInstruction(st, n, "swap", <<qubit1, qubit2>>, <<>>, NoParam)

AllQubits(n) == [k \in 1..n |-> k - 1]

\* add_barrier(qubits): qubits is None or Some(list)
add_barrier(st, n, qubits) ==
    IF qubits = None
    THEN AppendInstruction(st, n, "barrier", AllQubits(n), <<>>, NoParam)
    ELSE AppendInstruction(st, n, "barrier", qubits[1], <<>>, NoParam)

\* circuit.measure_all(): a new classical register of n bits is added to the
\* circuit, then a barrier on every qubit and one measure per qubit into the
\* new bits
RECURSIVE MeasureEach(_, _, _, _)
MeasureEach(st, n, base, i) ==
    IF i >= n THEN st
    ELSE MeasureEach(AppendInstruction(st, n, "measure", <<i>>, <<base + i>>, NoParam),
                     n, base, i + 1)

MeasureAll(st, n) ==
    LET base == st.circuit.num_clbits
        grown == [st EXCEPT !.circuit.num_clbits = @ + n]
    IN MeasureEach(AppendInstruction(grown, n, "barrier", AllQubits(n), <<>>, NoParam),
                   n, base, 0)

\* add_measurement(qubit, classical): classical = classical or qubit
add_measurement(st, n, qubit, classical) ==
    IF qubit = None THEN MeasureAll(st, n)
    ELSE LET c == IF classical = None \/ classical = Some(0) THEN qubit ELSE classical
         IN AppendInstruction(st, n, "measure", <<qubit[1]>>, <<c[1]>>, NoParam)

\* add_custom_gate(gate, qubits, params): gate(*params) when params is given
\* and not empty, else gate itself; the circuit wants as many qubits as the gate has
add_custom_gate(st, n, gate, qubits, params) ==
    IF Len(qubits) # gate.num_qubits
    THEN [st EXCEPT !.exc = "CircuitError"]
    ELSE AppendInstruction(st, n, gate.name, qubits, <<>>,
                           IF params # <<>> THEN NumParam ELSE NoParam)

create_entangled_pair(st, n, qubit1, qubit2) ==
    add_cnot(add_hadamard(st, n, qubit1), n, qubit1, qubit2)

\* for i in range(1, self.num_qubits): self.add_cnot(0, i)
RECURSIVE GhzCnots(_, _, _)
GhzCnots(st, n, i) ==
    IF i >= n THEN st ELSE GhzCnots(add_cnot(st, n, 0, i), n, i + 1)

create_ghz_state(st, n) == GhzCnots(add_hadamard(st, n, 0), n, 1)

\* return self (reached only when nothing raised)
ReturnSelf(st) == IF st.exc = "none" THEN "self" ELSE "None"

----------------------------------------------------------------------------
(* The QuantumCircuitBuilder state machine *)

\* Arguments handed to the builder's methods
PairQubits == {0, 1}

Angles == { <<>>, <<"a">>, <<"b">> }

ToffoliArgs == { <<0, 1, 2>>, <<1, 2, 0>>, <<0, 1, 1>> }

BarrierArgs == { None, Some(<<0, 1>>) }

MeasurementArgs ==
    {[qubit |-> None, classical |-> None]}
        \cup [qubit : {Some(0), Some(1)}, classical : {None, Some(0), Some(1)}]

CustomGateArgs ==
    { [gate |-> [name |-> "s", num_qubits |-> 1], qubits |-> <<0>>, params |-> <<>>],
      [gate |-> [name |-> "crz", num_qubits |-> 2], qubits |-> <<0, 1>>, params |-> <<1>>],
      [gate |-> [name |-> "crz", num_qubits |-> 2], qubits |-> <<0>>, params |-> <<1>>] }

\* builder = QuantumCircuitBuilder(n, nc)
BuilderInit ==
    /\ \E n \in 1..MaxQubits, nc \in {None, Some(1)} :
        /\ num_qubits = n
        /\ num_classical = NewNumClassical(n, nc)
        /\ circuit = [num_clbits |-> NewNumClassical(n, nc), data |-> <<>>]
    /\ parameters = <<>>
    /\ uuids = 0
    /\ blast = NoBuilderCall
    /\ BackendIdle
    /\ TemplatesIdle
    /\ VqeIdle

Self == Builder(circuit, parameters, uuids)

CanCall == Len(circuit.data) < MaxOps /\ Len(parameters) < MaxOps

\* The builder after a method has run, and the record of the call
Do(op, args, angle, st) ==
    /\ circuit' = st.circuit
    /\ parameters' = st.parameters
    /\ uuids' = st.uuids
    /\ blast' = [op |-> op, args |-> args, angle |-> angle, exc |-> st.exc,
                 ret |-> ReturnSelf(st)]

\* builder.add_hadamard(q)
CallAddHadamard ==
    /\ CanCall
    /\ \E q \in PairQubits :
        Do("add_hadamard", <<q>>, <<>>, add_hadamard(Self, num_qubits, q))
    /\ UNCHANGED <<num_qubits, num_classical, backendVars, templateVars, vqeVars>>

\* builder.add_pauli_x(q)
CallAddPauliX ==
    /\ CanCall
    /\ \E q \in {0, num_qubits} :
        Do("add_pauli_x", <<q>>, <<>>, add_pauli_x(Self, num_qubits, q))
    /\ UNCHANGED <<num_qubits, num_classical, backendVars, templateVars, vqeVars>>

\* builder.add_pauli_y(q)
CallAddPauliY ==
    /\ CanCall
    /\ \E q \in {0, num_qubits} :
        Do("add_pauli_y", <<q>>, <<>>, add_pauli_y(Self, num_qubits, q))
    /\ UNCHANGED <<num_qubits, num_classical, backendVars, templateVars, vqeVars>>

\* builder.add_pauli_z(q)
CallAddPauliZ ==
    /\ CanCall
    /\ \E q \in {0, num_qubits} :
        Do("add_pauli_z", <<q>>, <<>>, add_pauli_z(Self, num_qubits, q))
    /\ UNCHANGED <<num_qubits, num_classical, backendVars, templateVars, vqeVars>>

\* builder.add_cnot(c, t)
CallAddCnot ==
    /\ CanCall
    /\ \E c \in PairQubits, t \in PairQubits :
        Do("add_cnot", <<c, t>>, <<>>, add_cnot(Self, num_qubits, c, t))
    /\ UNCHANGED <<num_qubits, num_classical, backendVars, templateVars, vqeVars>>

\* builder.add_rotation_x(q, angle)
CallAddRotationX ==
    /\ CanCall
    /\ \E q \in {0}, angle \in Angles :
        Do("add_rotation_x", <<q>>, angle, add_rotation_x(Self, num_qubits, q, angle))
    /\ UNCHANGED <<num_qubits, num_classical, backendVars, templateVars, vqeVars>>

\* builder.add_rotation_y(q, angle)
CallAddRotationY ==
    /\ CanCall
    /\ \E q \in {0}, angle \in Angles :
        Do("add_rotation_y", <<q>>, angle, add_rotation_y(Self, num_qubits, q, angle))
    /\ UNCHANGED <<num_qubits, num_classical, backendVars, templateVars, vqeVars>>

\* builder.add_rotation_z(q, angle)
CallAddRotationZ ==
    /\ CanCall
    /\ \E q \in {0}, angle \in Angles :
        Do("add_rotation_z", <<q>>, angle, add_rotation_z(Self, num_qubits, q, angle))
    /\ UNCHANGED <<num_qubits, num_classical, backendVars, templateVars, vqeVars>>

\* builder.add_toffoli(c1, c2, t)
CallAddToffoli ==
    /\ CanCall
    /\ \E a \in ToffoliArgs :
        Do("add_toffoli", a, <<>>, add_toffoli(Self, num_qubits, a[1], a[2], a[3]))
    /\ UNCHANGED <<num_qubits, num_classical, backendVars, templateVars, vqeVars>>

\* builder.add_swap(q1, q2)
CallAddSwap ==
    /\ CanCall
    /\ \E q1 \in PairQubits, q2 \in PairQubits :
        Do("add_swap", <<q1, q2>>, <<>>, add_swap(Self, num_qubits, q1, q2))
    /\ UNCHANGED <<num_qubits, num_classical, backendVars, templateVars, vqeVars>>

\* builder.add_barrier(qubits)
CallAddBarrier ==
    /\ CanCall
    /\ \E qs \in BarrierArgs :
        Do("add_barrier", IF qs = None THEN <<>> ELSE qs[1], <<>>, add_barrier(Self, num_qubits, qs))
    /\ UNCHANGED <<num_qubits, num_classical, backendVars, templateVars, vqeVars>>

\* builder.add_measurement(qubit, classical)
CallAddMeasurement ==
    /\ CanCall
    /\ \E m \in MeasurementArgs :
        Do("add_measurement", m.qubit \o m.classical, <<>>, add_measurement(Self, num_qubits, m.qubit, m.classical))
    /\ UNCHANGED <<num_qubits, num_classical, backendVars, templateVars, vqeVars>>

\* builder.add_custom_gate(gate, qubits, params)
CallAddCustomGate ==
    /\ CanCall
    /\ \E g \in CustomGateArgs :
        Do("add_custom_gate", g.qubits, <<>>, add_custom_gate(Self, num_qubits, g.gate, g.qubits, g.params))
    /\ UNCHANGED <<num_qubits, num_classical, backendVars, templateVars, vqeVars>>

\* builder.create_entangled_pair(q1, q2)
CallCreateEntangledPair ==
    /\ CanCall
    /\ \E q1 \in PairQubits, q2 \in PairQubits :
        Do("create_entangled_pair", <<q1, q2>>, <<>>, create_entangled_pair(Self, num_qubits, q1, q2))
    /\ UNCHANGED <<num_qubits, num_classical, backendVars, templateVars, vqeVars>>

\* builder.create_ghz_state()
CallCreateGhzState ==
    /\ CanCall
    /\ Do("create_ghz_state", <<>>, <<>>, create_ghz_state(Self, num_qubits))
    /\ UNCHANGED <<num_qubits, num_classical, backendVars, templateVars, vqeVars>>

\* builder.build(): the circuit object itself, not a copy
build == circuit

NextBuilder ==
    \/ CallAddHadamard
    \/ CallAddPauliX
    \/ CallAddPauliY
    \/ CallAddPauliZ
    \/ CallAddCnot
    \/ CallAddRotationX
    \/ CallAddRotationY
    \/ CallAddRotationZ
    \/ CallAddToffoli
    \/ CallAddSwap
    \/ CallAddBarrier
    \/ CallAddMeasurement
    \/ CallAddCustomGate
    \/ CallCreateEntangledPair
    \/ CallCreateGhzState

SpecBuilder == BuilderInit /\ [][NextBuilder]_vars

----------------------------------------------------------------------------
(* Claims about QuantumCircuitBuilder, checked under SpecBuilder *)

\* The instruction a single-gate method appends
GateOf ==
    [add_hadamard |-> "h", add_pauli_x |-> "x", add_pauli_y |-> "y",
     add_pauli_z |-> "z", add_cnot |-> "cx", add_rotation_x |-> "rx",
     add_rotation_y |-> "ry", add_rotation_z |-> "rz", add_toffoli |-> "ccx",
     add_swap |-> "swap"]

Names(ops) == [i \in 1..Len(ops) |-> ops[i].name]

\* C5: a mutating call that returns returns the builder it was called on, and
\* the circuit build() gives is the earlier instructions, unchanged and in
\* order, followed by the call's own: one instruction for a single-gate call
\* (h for add_hadamard, cx for add_cnot, ...), h then cx for
\* create_entangled_pair, h and the n-1 cx for create_ghz_state, and the
\* barrier and n measures for add_measurement().
C5_Step ==
    LET old == build.data
        new == build'.data
        added == SubSeq(new, Len(old) + 1, Len(new))
        op == blast'.op
        args == blast'.args
    IN ((blast' # blast \/ circuit' # circuit) /\ blast'.exc = "none") =>
        /\ blast'.ret = "self"
        /\ Len(new) >= Len(old)
        /\ SubSeq(new, 1, Len(old)) = old
        /\ op \in DOMAIN GateOf =>
            /\ Names(added) = <<GateOf[op]>>
            /\ added[1].qubits = args
        /\ op = "add_barrier" => Names(added) = <<"barrier">>
        /\ op = "add_custom_gate" =>
            /\ Len(added) = 1
            /\ added[1].qubits = args
        /\ (op = "add_measurement" /\ args # <<>>) =>
            /\ Names(added) = <<"measure">>
            /\ added[1].qubits = <<args[1]>>
        /\ (op = "add_measurement" /\ args = <<>>) =>
            /\ Len(added) = num_qubits + 1
            /\ added[1].name = "barrier"
            /\ \A i \in 1..num_qubits :
                added[i + 1].name = "measure" /\ added[i + 1].qubits = <<i - 1>>
        /\ op = "create_entangled_pair" =>
            /\ Names(added) = <<"h", "cx">>
            /\ added[1].qubits = <<args[1]>>
            /\ added[2].qubits = args
        /\ op = "create_ghz_state" =>
            /\ Len(added) = num_qubits
            /\ added[1].name = "h" /\ added[1].qubits = <<0>>
            /\ \A i \in 1..(num_qubits - 1) :
                added[i + 1].name = "cx" /\ added[i + 1].qubits = <<0, i>>

IsRotation(op) == op \in {"add_rotation_x", "add_rotation_y", "add_rotation_z"}

\* C10: the parameter list holds one parameter per name, every instruction
\* given a name refers to the parameter of that name in the list, and a
\* rotation given a name (on a valid qubit) succeeds whether or not the name
\* was used before.
C10_ParametersUnifiedByName ==
    /\ \A i, j \in 1..Len(parameters) :
        i # j => parameters[i].name # parameters[j].name
    /\ \A k \in 1..Len(circuit.data) :
        circuit.data[k].param.kind = "sym" =>
            \E i \in 1..Len(parameters) : parameters[i] = circuit.data[k].param
    /\ (IsRotation(blast.op) /\ blast.angle # <<>> /\ AllValid(blast.args, num_qubits))
        => blast.exc = "none"

\* The indices a call was given lie outside the declared registers
OutOfRange(call) ==
    IF call.op = "add_measurement" /\ Len(call.args) = 2
    THEN \/ call.args[1] \notin 0..(num_qubits - 1)
         \/ call.args[2] \notin 0..(num_classical - 1)
    ELSE \E k \in 1..Len(call.args) : call.args[k] \notin 0..(num_qubits - 1)

\* C12: after every call the circuit build() gives has num_classical classical
\* bits and each of its instructions refers only to qubits 0..num_qubits-1 and
\* classical bits 0..num_classical-1 (add_measurement with and without
\* arguments included); a call given an index outside these ranges raises and
\* leaves the circuit as it was.
C12_Step ==
    /\ build'.num_clbits = num_classical'
    /\ \A i \in 1..Len(build'.data) :
        LET op == build'.data[i] IN
        /\ \A k \in 1..Len(op.qubits) : op.qubits[k] \in 0..(num_qubits' - 1)
        /\ \A k \in 1..Len(op.clbits) : op.clbits[k] \in 0..(num_classical' - 1)
    /\ ((blast' # blast \/ circuit' # circuit) /\ OutOfRange(blast')) =>
        /\ blast'.exc # "none"
        /\ build' = build

C12_IndicesWithinRegisters == [][C12_Step]_vars

\* C14: add_measurement(qubit, classical) with both indices valid appends one
\* measure of that qubit into the classical bit passed, classical = 0 with
\* qubit # 0 included; add_measurement(qubit) with classical omitted measures
\* into the classical bit of the qubit's own index.
C14_MeasurementIntoGivenBit ==
    LET args == blast.args
        given == IF Len(args) = 2 THEN args[2] ELSE args[1]
    IN (/\ blast.op = "add_measurement"
        /\ args # <<>>
        /\ args[1] \in 0..(num_qubits - 1)
        /\ given \in 0..(num_classical - 1)) =>
            /\ blast.exc = "none"
            /\ build.data[Len(build.data)] = Op("measure", <<args[1]>>, <<given>>, NoParam)

====
